---- MODULE Spec2Model ----
(***************************************************************************)
(* Option strategy visualizer (src/app.py): Black-Scholes pricing, the     *)
(* construction of up to four legs from the sidebar and column widgets,    *)
(* the portfolio PnL aggregation over the price grid, the time-decay       *)
(* curves and the position summary.                                        *)
(*                                                                         *)
(* Number representation (TLC integers are 32-bit, there are no reals):    *)
(*   money (S0, strikes, premiums, grid prices, option values, PnL) is an  *)
(*     integer count of 1/MoneyDen currency units, MoneyDen = 10*(300-1),  *)
(*     which makes S0*0.7, S0*1.3 and the 299 grid steps exact;            *)
(*   time is an integer count of 1/TimeDen years, TimeDen = 3650, which    *)
(*     makes total_days/365 and T_init*(1-p), p in tenths, exact;          *)
(*   vol is the slider's integer percent, rate the slider's value in       *)
(*     hundredths of a percent;                                            *)
(*   log, sqrt, exp and the normal cdf are computed in fixed point with    *)
(*     six decimals (F = 10^6), so a Black-Scholes value is the float      *)
(*     value to about 1e-3 currency units;                                 *)
(*   the float NaN that numpy returns for log of a negative number is the  *)
(*     reserved value NaN, which every arithmetic step propagates.         *)
(***************************************************************************)
EXTENDS Integers, Sequences, FiniteSets, TLC

\* ------------------------------------------------------------------ units
NumSamples == 300
MoneyDen == 10 * (NumSamples - 1)
TimeDen == 10 * 365
F == 1000 * 1000
NaN == -2147483647
PosInf == 2000000000
NegInf == -2000000000

Abs(x) == IF x < 0 THEN -x ELSE x
Sgn(x) == IF x < 0 THEN -1 ELSE 1
Max0(x) == IF x > 0 THEN x ELSE 0

\* a*b/F for fixed-point a, b >= 0 (below 2000), by three-digit halves
FixMulU(x, y) ==
    (x \div 1000) * (y \div 1000)
    + ((x \div 1000) * (y % 1000) + (x % 1000) * (y \div 1000)
       + ((x % 1000) * (y % 1000)) \div 1000) \div 1000

\* a*b/F for fixed-point a, b, rounded toward zero
FixMul(a, b) ==
    IF a >= 0
    THEN (IF b >= 0 THEN FixMulU(a, b) ELSE -FixMulU(a, -b))
    ELSE (IF b >= 0 THEN -FixMulU(-a, b) ELSE FixMulU(-a, -b))

\* x*F/y for x >= 0, y > 0 by long division in base 100 (y below 2*10^7)
FixDivU(x, y) ==
    LET r1 == ((x % y) * 100) % y
        r2 == (r1 * 100) % y
    IN (x \div y) * F + (((x % y) * 100) \div y) * 10000
       + ((r1 * 100) \div y) * 100 + (r2 * 100) \div y

\* a*F/b, rounded toward zero
FixDiv(a, b) ==
    IF a >= 0
    THEN (IF b >= 0 THEN FixDivU(a, b) ELSE -FixDivU(a, -b))
    ELSE (IF b >= 0 THEN -FixDivU(-a, b) ELSE FixDivU(-a, -b))

\* m*x/F for a money amount m >= 0 and a fixed-point factor 0 <= x <= F
MulMicroU(m, x) == (m * (x \div 1000) + (m * (x % 1000)) \div 1000) \div 1000

\* m*x/F for a money amount m and a fixed-point factor x >= 0
MulMicro(m, x) == IF m >= 0 THEN MulMicroU(m, x) ELSE -MulMicroU(-m, x)

\* ------------------------------------------------- np.log, np.sqrt, np.exp
Ln2 == 693147
InvSqrt2Pi == 398942
DSat == 10 * F

\* 2*atanh(z) = 2*(z + z^3/3 + ... + z^13/13), |z| <= 1/3
LnSeries(z) ==
    LET z2 == FixMul(z, z)
        s13 == F \div 13
        s11 == F \div 11 + FixMul(z2, s13)
        s9 == F \div 9 + FixMul(z2, s11)
        s7 == F \div 7 + FixMul(z2, s9)
        s5 == F \div 5 + FixMul(z2, s7)
        s3 == F \div 3 + FixMul(z2, s5)
        s1 == F + FixMul(z2, s3)
    IN 2 * FixMul(z, s1)

\* ln(a/b) for integers a, b > 0: halve or double into (1/2, 2), then the series
RECURSIVE LnPos(_, _)
LnPos(a, b) ==
    IF a >= 2 * b THEN Ln2 + LnPos(a, 2 * b)
    ELSE IF b >= 2 * a THEN LnPos(2 * a, b) - Ln2
    ELSE LnSeries(FixDiv(a - b, a + b))

\* np.log(S / K) with S a numpy float: x/0 is +-inf or nan, log(0) is -inf,
\* log of a negative number is nan (warnings, no exception)
LogRatio(S, K) ==
    IF K = 0 THEN (IF S > 0 THEN PosInf ELSE NaN)
    ELSE IF S = 0 THEN NegInf
    ELSE IF (S < 0) # (K < 0) THEN NaN
    ELSE LnPos(Abs(S), Abs(K))

\* np.sqrt(t) for fixed-point t > 0, by Newton's iteration from above
RECURSIVE SqrtIter(_, _)
SqrtIter(t, x) ==
    LET y == (x + FixDiv(t, x)) \div 2
    IN IF y >= x THEN x ELSE SqrtIter(t, y)

\* a power of ten at or above sqrt(t), as the starting point
SqrtStart(t) ==
    IF t > F THEN t
    ELSE IF t > 10000 THEN F
    ELSE IF t > 100 THEN 100000
    ELSE 10000

Sqrt(t) == IF t <= 0 THEN 0 ELSE SqrtIter(t, SqrtStart(t))

\* exp(-f) for 0 <= f < 1/8: 1 - f/1*(1 - f/2*(1 - f/3*(1 - f/4*(1 - f/5))))
ExpSmall(f) ==
    LET e5 == F - f \div 5
        e4 == F - FixMul(f, e5) \div 4
        e3 == F - FixMul(f, e4) \div 3
        e2 == F - FixMul(f, e3) \div 2
    IN F - FixMul(f, e2)

\* exp(-n) for n = 0..15 and exp(-k/8) for k = 0..7, to six decimals
ExpInt == <<1000000, 367879, 135335, 49787, 18316, 6738, 2479, 912, 335, 123, 45, 17,
            6, 2, 1, 0>>
ExpEighth == <<1000000, 882497, 778801, 687289, 606531, 535261, 472367, 416862>>

\* np.exp(-y) for fixed-point y >= 0: exp(-n) * exp(-k/8) * exp(-f), y = n + k/8 + f
ExpNeg(y) ==
    IF y >= 15 * F THEN 0
    ELSE LET n == y \div F
             k == (y % F) \div 125000
             f == y % 125000
         IN FixMul(FixMul(ExpInt[n + 1], ExpEighth[k + 1]), ExpSmall(f))

\* si.norm.cdf(x, 0.0, 1.0): Abramowitz-Stegun 26.2.17 (error below 1e-7);
\* beyond |x| = 5.5 the cdf is 0 or 1 to six decimals
norm_cdf(x) ==
    IF x = NaN THEN NaN
    ELSE IF x >= 5500000 THEN F
    ELSE IF x <= -5500000 THEN 0
    ELSE LET a == Abs(x)
             t == FixDiv(F, F + FixMul(231642, a))
             p5 == 1330274
             p4 == FixMul(t, p5) - 1821256
             p3 == FixMul(t, p4) + 1781478
             p2 == FixMul(t, p3) - 356564
             p1 == FixMul(t, p2) + 319382
             poly == FixMul(t, p1)
             pdf == FixMul(InvSqrt2Pi, ExpNeg(FixMul(a, a) \div 2))
             tail == FixMul(pdf, poly)
         IN IF x >= 0 THEN F - tail ELSE tail

\* d1 and d2, (log(S/K) + drift*T) / (sigma*sqrt(T)), computed as
\* log(S/K)/(sigma*sqrt(T)) + (drift/sigma)*sqrt(T): the same quotient, split so
\* that six decimals keep the drift term (about 1e-6 for a short T); +-inf and
\* nan as numpy propagates them
DRatio(lg, drift, sigma, sqT) ==
    LET den == FixMul(sigma, sqT)
        dd == FixMul(FixDiv(drift, sigma), sqT)
    IN IF lg = NaN THEN NaN
       ELSE IF lg = PosInf THEN DSat
       ELSE IF lg = NegInf THEN -DSat
       ELSE IF Abs(lg) >= 10 * den THEN Sgn(lg) * DSat
       ELSE FixDiv(lg, den) + dd

\* --- MOTEUR DE CALCUL (Modele Black-Scholes) ---
\* S, K money; T in 1/TimeDen years; r, sigma fixed point; the result is money or NaN

\* lines 12-18: the closed form, for T > 1e-6
bs_formula(S, K, T, r, sigma, option_type) ==
    LET sqT == Sqrt(FixDiv(T, TimeDen))
        lg == LogRatio(S, K)
        hv == FixMul(sigma, sigma) \div 2
        d1 == DRatio(lg, r + hv, sigma, sqT)
        d2 == DRatio(lg, r - hv, sigma, sqT)
        disc == ExpNeg(FixMul(r, FixDiv(T, TimeDen)))
    IN IF lg = NaN THEN NaN
       ELSE IF option_type = "call"
       THEN MulMicro(S, norm_cdf(d1)) - MulMicro(MulMicro(K, disc), norm_cdf(d2))
       ELSE MulMicro(MulMicro(K, disc), norm_cdf(-d2)) - MulMicro(S, norm_cdf(-d1))

\* T <= 1e-6
is_expired(T) == T * F <= TimeDen

black_scholes_nomax(S, K, T, r, sigma, option_type) ==
    IF is_expired(T)
    THEN (IF option_type = "call" THEN S - K ELSE K - S)
    ELSE bs_formula(S, K, T, r, sigma, option_type)

black_scholes(S, K, T, r, sigma, option_type) ==
    IF is_expired(T)
    THEN (IF option_type = "call" THEN Max0(S - K) ELSE Max0(K - S))
    ELSE bs_formula(S, K, T, r, sigma, option_type)

\* ----------------------------------------------------------- float helpers
\* float addition, subtraction and multiplication: a NaN operand gives NaN
fadd(a, b) == IF a = NaN \/ b = NaN THEN NaN ELSE a + b
fsub(a, b) == IF a = NaN \/ b = NaN THEN NaN ELSE a - b
fmul(a, b) == IF a = NaN \/ b = NaN THEN NaN ELSE a * b

\* a whole amount and an amount in tenths, as money
M(units) == units * MoneyDen
Tenths(t) == t * (MoneyDen \div 10)

\* ------------------------------------------------------------------ state
VARIABLES
    S0, vol, rate, total_days, days_passed,      \* sidebar widgets (vol, rate after /100)
    active, side, opt_type, strike, premium,     \* the widgets of the four columns
    T_init, T_current, legs,                     \* globals set by lines 37-62
    pc,                                          \* position of the run after line 62
    S_range, pnl_expiry, pnl_current, intermediate_curves,
    net_cost, current_val, pnl_total

widgets == <<S0, vol, rate, total_days, days_passed, active, side, opt_type, strike, premium>>
derived == <<T_init, T_current, legs>>
outputs == <<S_range, pnl_expiry, pnl_current, intermediate_curves,
             net_cost, current_val, pnl_total>>
vars == <<widgets, derived, pc, outputs>>

Slots == 0 .. 3

\* ------------------------------------------------------- widget defaults
DefaultS0 == M(100)
DefaultVol == 25 * 10000
DefaultRate == 200 * 100
DefaultTotalDays == 45
MinTotalDays == 1
DefaultActive(i) == i = 0
DefaultStrike(i) == M(100 + (IF i < 2 THEN i * 2 ELSE -i * 2))
DefaultPremium == M(2)

\* the upper end of the "Jours ecoules" slider
days_passed_max_plus(td) == td + 1

days_passed_max(td) == td

\* qty = 1 if side == "Achat" else -1
qty_zero(sd) == IF sd = "Achat" THEN 1 ELSE 0

qty(sd) == IF sd = "Achat" THEN 1 ELSE -1

\* opt_type.lower()
lower(t) == IF t = "Call" THEN "call" ELSE IF t = "Put" THEN "put" ELSE t

\* is_active of slot i
is_active(act, i) == act[i]

\* for i in range(4): if is_active: legs.append({...})
RECURSIVE legs_loop(_, _, _, _, _, _, _)
legs_loop(i, acc, act, sd, ty, st, pr) ==
    IF i = 4 THEN acc
    ELSE legs_loop(i + 1,
                   IF is_active(act, i)
                   THEN Append(acc, [type |-> lower(ty[i]), k |-> st[i],
                                     p |-> pr[i], q |-> qty(sd[i])])
                   ELSE acc,
                   act, sd, ty, st, pr)

build_legs(act, sd, ty, st, pr) == legs_loop(0, <<>>, act, sd, ty, st, pr)

\* T_init = total_days / 365 and T_current = (total_days - days_passed) / 365
T_init_of(td) == td * (TimeDen \div 365)
T_current_of(td, dp) == (td - dp) * (TimeDen \div 365)

\* ------------------------------------------ FONCTION DE CALCUL DU PNL GLOBAL
\* the value of one leg at price s
leg_value_noflag(leg, s, t_remaining, is_expiry, r, v) ==
    black_scholes(s, leg.k, t_remaining, r, v, leg.type)

leg_value(leg, s, t_remaining, is_expiry, r, v) ==
    IF is_expiry
    THEN (IF leg.type = "call" THEN Max0(s - leg.k) ELSE Max0(leg.k - s))
    ELSE black_scholes(s, leg.k, t_remaining, r, v, leg.type)

\* leg_pnl: (val - leg['p']) * leg['q'] at every price of S_vec
leg_pnl(leg, S_vec, t_remaining, is_expiry, r, v) ==
    [i \in DOMAIN S_vec |->
        fmul(fsub(leg_value(leg, S_vec[i], t_remaining, is_expiry, r, v), leg.p), leg.q)]

\* total_pnl = zeros; for leg in legs: total_pnl += leg_pnl
strategy_pnl_last(lgs, S_vec, t_remaining, is_expiry, r, v) ==
    IF lgs = <<>> THEN [i \in DOMAIN S_vec |-> 0]
    ELSE leg_pnl(lgs[Len(lgs)], S_vec, t_remaining, is_expiry, r, v)

RECURSIVE strategy_pnl_like(_, _, _, _, _, _)
strategy_pnl_like(lgs, S_vec, t_remaining, is_expiry, r, v) ==
    IF lgs = <<>> THEN S_vec
    ELSE LET n == Len(lgs)
             total_pnl == strategy_pnl_like(SubSeq(lgs, 1, n - 1), S_vec, t_remaining,
                                            is_expiry, r, v)
             lp == leg_pnl(lgs[n], S_vec, t_remaining, is_expiry, r, v)
         IN [i \in DOMAIN S_vec |-> fadd(total_pnl[i], lp[i])]

RECURSIVE strategy_pnl(_, _, _, _, _, _)
strategy_pnl(lgs, S_vec, t_remaining, is_expiry, r, v) ==
    IF lgs = <<>> THEN [i \in DOMAIN S_vec |-> 0]
    ELSE LET n == Len(lgs)
             total_pnl == strategy_pnl(SubSeq(lgs, 1, n - 1), S_vec, t_remaining, is_expiry, r, v)
             lp == leg_pnl(lgs[n], S_vec, t_remaining, is_expiry, r, v)
         IN [i \in DOMAIN S_vec |-> fadd(total_pnl[i], lp[i])]

\* get_strategy_pnl reads the globals legs, rate and vol
get_strategy_pnl(S_vec, t_remaining, is_expiry) ==
    strategy_pnl(legs, S_vec, t_remaining, is_expiry, rate, vol)

\* np.linspace(start, stop, num): start + i*step, the last point set to stop
linspace(start, stop, num) ==
    [i \in 1 .. num |->
        IF i = num THEN stop ELSE start + ((i - 1) * (stop - start)) \div (num - 1)]

\* S_range = np.linspace(S0 * 0.7, S0 * 1.3, 300)
price_grid(s0) == linspace((s0 * 7) \div 10, (s0 * 13) \div 10, NumSamples)

\* paliers = [0.1, 0.3, 0.5, 0.8], in tenths
paliers == <<1, 3, 5, 8>>

\* t_step = T_init * (1 - p)
t_step_elapsed(Ti, p) == (Ti * p) \div 10

t_step(Ti, p) == (Ti * (10 - p)) \div 10

\* net_cost = sum(l['p'] * l['q'] for l in legs)
RECURSIVE net_cost_of(_)
net_cost_of(lgs) ==
    IF lgs = <<>> THEN 0
    ELSE net_cost_of(SubSeq(lgs, 1, Len(lgs) - 1)) + lgs[Len(lgs)].p * lgs[Len(lgs)].q

\* current_val = sum(black_scholes(S0, l['k'], T_current, rate, vol, l['type']) * l['q'] ...)
RECURSIVE current_val_noq(_, _, _, _, _)
current_val_noq(lgs, s0, Tc, r, v) ==
    IF lgs = <<>> THEN 0
    ELSE LET l == lgs[Len(lgs)]
         IN fadd(current_val_noq(SubSeq(lgs, 1, Len(lgs) - 1), s0, Tc, r, v),
                 black_scholes(s0, l.k, Tc, r, v, l.type))

RECURSIVE current_val_of(_, _, _, _, _)
current_val_of(lgs, s0, Tc, r, v) ==
    IF lgs = <<>> THEN 0
    ELSE LET l == lgs[Len(lgs)]
         IN fadd(current_val_of(SubSeq(lgs, 1, Len(lgs) - 1), s0, Tc, r, v),
                 fmul(black_scholes(s0, l.k, Tc, r, v, l.type), l.q))

\* S / K with S0 and the strike both Python floats raises ZeroDivisionError
\* (line 12 is reached only when T > 1e-6)
raises_zero_division(lgs, Tc) ==
    ~is_expired(Tc) /\ \E i \in 1 .. Len(lgs) : lgs[i].k = 0

\* ------------------------------------------------------------ input bounds
MaxDays == 2
MaxNonDefault == 4

S0Choices == {M(100), 0, -M(100)}
VolChoices == {5 * 10000, 25 * 10000}
RateChoices == {0, 200 * 100}
TotalDaysChoices == {DefaultTotalDays} \cup (0 .. MaxDays)
DaysPassedChoices(td) ==
    {d \in 0 .. days_passed_max(td) : d <= MaxDays \/ d = days_passed_max(td)}
SideChoices == {"Achat", "Vente"}
TypeChoices == {"Call", "Put"}
StrikeChoices(i) == {DefaultStrike(i), M(105), M(95), 0}
PremiumChoices == {DefaultPremium, Tenths(25), M(1)}

Unset == <<>>

\* the number of widgets that are not at their default value; the runs explored keep
\* it within MaxNonDefault (any number of changes, in any order, within that radius)
B2N(b) == IF b THEN 1 ELSE 0
RECURSIVE SlotsNonDefault(_)
SlotsNonDefault(i) ==
    IF i = 4 THEN 0
    ELSE B2N(active[i] # DefaultActive(i)) + B2N(side[i] # "Achat")
         + B2N(opt_type[i] # "Call") + B2N(strike[i] # DefaultStrike(i))
         + B2N(premium[i] # DefaultPremium) + SlotsNonDefault(i + 1)
NonDefault ==
    B2N(S0 # DefaultS0) + B2N(vol # DefaultVol) + B2N(rate # DefaultRate)
    + B2N(total_days # DefaultTotalDays) + B2N(days_passed # 0) + SlotsNonDefault(0)

\* ---------------------------------------------- the widgets and lines 26-62
\* the state of the first run: every widget at its default value
Init ==
    /\ S0 = DefaultS0
    /\ vol = DefaultVol
    /\ rate = DefaultRate
    /\ total_days = DefaultTotalDays
    /\ days_passed = 0
    /\ active = [i \in Slots |-> DefaultActive(i)]
    /\ side = [i \in Slots |-> "Achat"]
    /\ opt_type = [i \in Slots |-> "Call"]
    /\ strike = [i \in Slots |-> DefaultStrike(i)]
    /\ premium = [i \in Slots |-> DefaultPremium]
    /\ T_init = T_init_of(DefaultTotalDays)
    /\ T_current = T_current_of(DefaultTotalDays, 0)
    /\ legs = build_legs([i \in Slots |-> DefaultActive(i)], [i \in Slots |-> "Achat"],
                         [i \in Slots |-> "Call"], [i \in Slots |-> DefaultStrike(i)],
                         [i \in Slots |-> DefaultPremium])
    /\ pc = "widgets"
    /\ S_range = Unset
    /\ pnl_expiry = Unset
    /\ pnl_current = Unset
    /\ intermediate_curves = Unset
    /\ net_cost = Unset
    /\ current_val = Unset
    /\ pnl_total = Unset

\* a widget change reruns the script: lines 37-38 and the loop of lines 45-62
Rerun ==
    /\ T_init' = T_init_of(total_days')
    /\ T_current' = T_current_of(total_days', days_passed')
    /\ legs' = build_legs(active', side', opt_type', strike', premium')
    /\ UNCHANGED <<pc, outputs>>
    /\ NonDefault' <= MaxNonDefault

SetS0(v) ==
    /\ pc = "widgets" /\ v # S0
    /\ S0' = v
    /\ UNCHANGED <<vol, rate, total_days, days_passed, active, side, opt_type, strike, premium>>
    /\ Rerun

SetVol(v) ==
    /\ pc = "widgets" /\ v # vol
    /\ vol' = v
    /\ UNCHANGED <<S0, rate, total_days, days_passed, active, side, opt_type, strike, premium>>
    /\ Rerun

SetRate(v) ==
    /\ pc = "widgets" /\ v # rate
    /\ rate' = v
    /\ UNCHANGED <<S0, vol, total_days, days_passed, active, side, opt_type, strike, premium>>
    /\ Rerun

\* a new total changes the slider's max_value: Streamlit identifies a widget without
\* a key by its arguments, so the slider is a new widget and returns its default, 0
SetTotalDays(n) ==
    /\ pc = "widgets" /\ n # total_days /\ n >= MinTotalDays
    /\ total_days' = n
    /\ days_passed' = 0
    /\ UNCHANGED <<S0, vol, rate, active, side, opt_type, strike, premium>>
    /\ Rerun

SetDaysPassed(d) ==
    /\ pc = "widgets" /\ d # days_passed
    /\ days_passed' = d
    /\ UNCHANGED <<S0, vol, rate, total_days, active, side, opt_type, strike, premium>>
    /\ Rerun

\* the four inner widgets are created only under "if is_active"; Streamlit drops the
\* state of a widget that a run does not create, so they restart from their defaults
ToggleActive(i) ==
    /\ pc = "widgets"
    /\ active' = [active EXCEPT ![i] = ~active[i]]
    /\ side' = [side EXCEPT ![i] = "Achat"]
    /\ opt_type' = [opt_type EXCEPT ![i] = "Call"]
    /\ strike' = [strike EXCEPT ![i] = DefaultStrike(i)]
    /\ premium' = [premium EXCEPT ![i] = DefaultPremium]
    /\ UNCHANGED <<S0, vol, rate, total_days, days_passed>>
    /\ Rerun

SetSide(i, v) ==
    /\ pc = "widgets" /\ active[i] /\ v # side[i]
    /\ side' = [side EXCEPT ![i] = v]
    /\ UNCHANGED <<S0, vol, rate, total_days, days_passed, active, opt_type, strike, premium>>
    /\ Rerun

SetType(i, v) ==
    /\ pc = "widgets" /\ active[i] /\ v # opt_type[i]
    /\ opt_type' = [opt_type EXCEPT ![i] = v]
    /\ UNCHANGED <<S0, vol, rate, total_days, days_passed, active, side, strike, premium>>
    /\ Rerun

SetStrike(i, v) ==
    /\ pc = "widgets" /\ active[i] /\ v # strike[i]
    /\ strike' = [strike EXCEPT ![i] = v]
    /\ UNCHANGED <<S0, vol, rate, total_days, days_passed, active, side, opt_type, premium>>
    /\ Rerun

SetPremium(i, v) ==
    /\ pc = "widgets" /\ active[i] /\ v # premium[i]
    /\ premium' = [premium EXCEPT ![i] = v]
    /\ UNCHANGED <<S0, vol, rate, total_days, days_passed, active, side, opt_type, strike>>
    /\ Rerun

Next ==
    \/ \E v \in S0Choices : SetS0(v)
    \/ \E v \in VolChoices : SetVol(v)
    \/ \E v \in RateChoices : SetRate(v)
    \/ \E n \in TotalDaysChoices : SetTotalDays(n)
    \/ \E d \in DaysPassedChoices(total_days) : SetDaysPassed(d)
    \/ \E i \in Slots : ToggleActive(i)
    \/ \E i \in Slots, v \in SideChoices : SetSide(i, v)
    \/ \E i \in Slots, v \in TypeChoices : SetType(i, v)
    \/ \E i \in Slots : \E v \in StrikeChoices(i) : SetStrike(i, v)
    \/ \E i \in Slots, v \in PremiumChoices : SetPremium(i, v)

Spec == Init /\ [][Next]_vars

\* -------------------------------------- the computation, lines 81-92, 140-149
\* The runs of Spec stop at line 62. SpecEval takes the widget values of one run
\* from the sets below (each a state the widgets can be put in) and follows the
\* rest of that run statement by statement.
EvalS0 == {M(100), 0, -M(100)}
EvalDays == {<<DefaultTotalDays, 0>>, <<DefaultTotalDays, DefaultTotalDays>>, <<MinTotalDays, 0>>}
SlotOff(i) ==
    [on |-> FALSE, side |-> "Achat", type |-> "Call", k |-> DefaultStrike(i), p |-> DefaultPremium]
SlotOn(i, sd, ty, st, pr) == [on |-> TRUE, side |-> sd, type |-> ty, k |-> st, p |-> pr]
EvalSlot(i) ==
    IF i = 0 THEN {SlotOff(0),
                   SlotOn(0, "Vente", "Call", DefaultStrike(0), DefaultPremium),
                   SlotOn(0, "Achat", "Call", M(105), Tenths(25))}
    ELSE IF i = 1 THEN {SlotOff(1),
                        SlotOn(1, "Achat", "Put", M(95), M(1)),
                        SlotOn(1, "Vente", "Put", 0, DefaultPremium)}
    ELSE {SlotOff(i)}

InitEval ==
    /\ S0 \in EvalS0
    /\ vol = DefaultVol
    /\ rate = DefaultRate
    /\ \E d \in EvalDays : total_days = d[1] /\ days_passed = d[2]
    /\ \E c0 \in EvalSlot(0), c1 \in EvalSlot(1), c2 \in EvalSlot(2), c3 \in EvalSlot(3) :
        LET c == [i \in Slots |-> IF i = 0 THEN c0 ELSE IF i = 1 THEN c1
                                  ELSE IF i = 2 THEN c2 ELSE c3]
        IN /\ active = [i \in Slots |-> c[i].on]
           /\ side = [i \in Slots |-> c[i].side]
           /\ opt_type = [i \in Slots |-> c[i].type]
           /\ strike = [i \in Slots |-> c[i].k]
           /\ premium = [i \in Slots |-> c[i].p]
    /\ T_init = T_init_of(total_days)
    /\ T_current = T_current_of(total_days, days_passed)
    /\ legs = build_legs(active, side, opt_type, strike, premium)
    /\ pc = "grid"
    /\ S_range = Unset
    /\ pnl_expiry = Unset
    /\ pnl_current = Unset
    /\ intermediate_curves = Unset
    /\ net_cost = Unset
    /\ current_val = Unset
    /\ pnl_total = Unset

\* line 81
ComputeGrid ==
    /\ pc = "grid"
    /\ S_range' = price_grid(S0)
    /\ pc' = "expiry"
    /\ UNCHANGED <<widgets, derived, pnl_expiry, pnl_current, intermediate_curves,
                   net_cost, current_val, pnl_total>>

\* line 84
ComputeExpiry ==
    /\ pc = "expiry"
    /\ pnl_expiry' = get_strategy_pnl(S_range, 0, TRUE)
    /\ pc' = "current"
    /\ UNCHANGED <<widgets, derived, S_range, pnl_current, intermediate_curves,
                   net_cost, current_val, pnl_total>>

\* line 85
ComputeCurrent ==
    /\ pc = "current"
    /\ pnl_current' = get_strategy_pnl(S_range, T_current, FALSE)
    /\ pc' = "decay"
    /\ UNCHANGED <<widgets, derived, S_range, pnl_expiry, intermediate_curves,
                   net_cost, current_val, pnl_total>>

\* one turn of the loop of lines 90-92
DecayStep ==
    /\ pc = "decay"
    /\ LET n == Cardinality(DOMAIN intermediate_curves)
           p == paliers[n + 1]
           curve == get_strategy_pnl(S_range, t_step(T_init, p), FALSE)
       IN /\ intermediate_curves' =
                [q \in DOMAIN intermediate_curves \cup {p} |->
                    IF q = p THEN curve ELSE intermediate_curves[q]]
          /\ pc' = IF n + 1 = Len(paliers) THEN "net_cost" ELSE "decay"
    /\ UNCHANGED <<widgets, derived, S_range, pnl_expiry, pnl_current,
                   net_cost, current_val, pnl_total>>

\* line 140
ComputeNetCost ==
    /\ pc = "net_cost"
    /\ net_cost' = net_cost_of(legs)
    /\ pc' = "current_val"
    /\ UNCHANGED <<widgets, derived, S_range, pnl_expiry, pnl_current, intermediate_curves,
                   current_val, pnl_total>>

\* line 146
ComputeCurrentVal ==
    /\ pc = "current_val"
    /\ ~raises_zero_division(legs, T_current)
    /\ current_val' = current_val_of(legs, S0, T_current, rate, vol)
    /\ pc' = "pnl_total"
    /\ UNCHANGED <<widgets, derived, S_range, pnl_expiry, pnl_current, intermediate_curves,
                   net_cost, pnl_total>>

\* line 146, with a strike of 0: the run ends on the exception
CurrentValRaises ==
    /\ pc = "current_val"
    /\ raises_zero_division(legs, T_current)
    /\ pc' = "ZeroDivisionError"
    /\ UNCHANGED <<widgets, derived, outputs>>

\* line 149
ComputePnlTotal ==
    /\ pc = "pnl_total"
    /\ pnl_total' = fsub(current_val, net_cost)
    /\ pc' = "done"
    /\ UNCHANGED <<widgets, derived, S_range, pnl_expiry, pnl_current, intermediate_curves,
                   net_cost, current_val>>

NextEval ==
    \/ ComputeGrid
    \/ ComputeExpiry
    \/ ComputeCurrent
    \/ DecayStep
    \/ ComputeNetCost
    \/ ComputeCurrentVal
    \/ CurrentValRaises
    \/ ComputePnlTotal

SpecEval == InitEval /\ [][NextEval]_vars

\* =================================================================== claims
\* the run has passed line 92: every curve is computed
Finished == pc \in {"net_cost", "current_val", "pnl_total", "done", "ZeroDivisionError"}

\* the sum over the legs, in list order, of term(leg)
LegSum(lgs, term(_)) ==
    LET acc[n \in 0 .. Len(lgs)] == IF n = 0 THEN 0 ELSE fadd(acc[n - 1], term(lgs[n]))
    IN acc[Len(lgs)]

\* max(0, s-K) for a call, max(0, K-s) for a put
Intrinsic(type, s, K) ==
    IF type = "call" THEN (IF s > K THEN s - K ELSE 0) ELSE (IF K > s THEN K - s ELSE 0)

\* the time remaining at checkpoint p (in tenths): (total_days/365) * (1 - p/10)
CheckpointTime(p) == total_days * (10 - p)

\* the elementwise sum of the curves of the one-leg strategies [leg], leg in lgs
SumOfSingles(lgs, S_vec, t, e, r, v) ==
    [i \in DOMAIN S_vec |->
        LegSum(lgs, LAMBDA l : strategy_pnl(<<l>>, S_vec, t, e, r, v)[i])]

ExampleCall == [type |-> "call", k |-> M(105), p |-> Tenths(25), q |-> 1]
ExamplePut == [type |-> "put", k |-> M(95), p |-> M(1), q |-> 1]

\* C1: with time remaining 0 the curve computed with is_expiry=False (the T <= 1e-6
\* branch of black_scholes) equals the curve computed with is_expiry=True, point for
\* point, for every rate and volatility; and when days_passed = total_days the
\* current curve is the expiry curve.
C1_ZeroTimeEqualsExpiry ==
    pc = "done" =>
        /\ \A r \in RateChoices, v \in VolChoices :
              strategy_pnl(legs, S_range, 0, FALSE, r, v)
                  = strategy_pnl(legs, S_range, 0, TRUE, r, v)
        /\ days_passed = total_days => pnl_current = pnl_expiry

C1_Witness ==
    /\ pc = "done" /\ days_passed = total_days /\ T_current = 0
    /\ Len(legs) = 2 /\ S0 = M(100)
    /\ pnl_current = pnl_expiry
    /\ pnl_current[1] # pnl_current[NumSamples]

\* C2: superposition: every curve of the strategy (expiry, current, each decay
\* curve) is the elementwise sum of the curves of its legs taken alone, at the same
\* time remaining and flag; for two legs A, B: pnl([A, B]) = pnl([A]) + pnl([B]).
C2_Superposition ==
    pc = "done" =>
        /\ pnl_expiry = SumOfSingles(legs, S_range, 0, TRUE, rate, vol)
        /\ pnl_current = SumOfSingles(legs, S_range, T_current, FALSE, rate, vol)
        /\ \A p \in DOMAIN intermediate_curves :
              intermediate_curves[p]
                  = SumOfSingles(legs, S_range, CheckpointTime(p), FALSE, rate, vol)

C2_Witness ==
    /\ pc = "done" /\ Len(legs) = 2 /\ S0 = M(100) /\ T_current > 0
    /\ pnl_current = SumOfSingles(legs, S_range, T_current, FALSE, rate, vol)
    /\ pnl_current # strategy_pnl(<<legs[1]>>, S_range, T_current, FALSE, rate, vol)
    /\ pnl_current # strategy_pnl(<<legs[2]>>, S_range, T_current, FALSE, rate, vol)

\* C3: with is_expiry true the PnL at each grid price s is the sum over the legs of
\* (intrinsic value - premium) * quantity, whatever the time remaining, the rate and
\* the volatility; a long call K=105, premium 2.5 gives 2.5 at s=110, -2.5 at s=100.
C3_ExpiryIsIntrinsic ==
    pc = "done" =>
        /\ \A i \in DOMAIN S_range :
              pnl_expiry[i]
                  = LegSum(legs, LAMBDA l : (Intrinsic(l.type, S_range[i], l.k) - l.p) * l.q)
        /\ \A t \in {0, T_current, T_init}, r \in RateChoices, v \in VolChoices :
              strategy_pnl(legs, S_range, t, TRUE, r, v) = pnl_expiry
        /\ \A t \in {0, T_current, T_init} :
              strategy_pnl(<<ExampleCall>>, <<M(110), M(100)>>, t, TRUE, rate, vol)
                  = <<Tenths(25), -Tenths(25)>>

C3_Witness ==
    /\ pc = "done" /\ legs = <<ExampleCall>> /\ S0 = M(100) /\ T_current > 0
    /\ pnl_expiry[1] = -Tenths(25)
    /\ pnl_expiry[NumSamples] = M(130) - M(105) - Tenths(25)

\* C4: a spot price or a strike <= 0 is rejected before use: no run with such an
\* input computes a curve or a mark-to-market value.
InvalidInput == S0 <= 0 \/ \E j \in 1 .. Len(legs) : legs[j].k <= 0
C4_InvalidRejected ==
    InvalidInput =>
        /\ pnl_expiry = Unset /\ pnl_current = Unset
        /\ intermediate_curves = Unset /\ current_val = Unset

\* C5: net premium = sum of premium * quantity; mark-to-market = sum of
\* price(S0, K, T_current, r, sigma, type) * quantity; unrealized PnL = mark-to-market
\* - net premium; the legs [call 105 p=2.5 q=+1, put 95 p=1.0 q=+1] cost 3.5.
C5_Summary ==
    /\ pc \in {"current_val", "pnl_total", "done", "ZeroDivisionError"} =>
          /\ net_cost = LegSum(legs, LAMBDA l : l.p * l.q)
          /\ legs = <<ExampleCall, ExamplePut>> => net_cost = Tenths(35)
    /\ pc = "done" =>
          /\ current_val = LegSum(legs, LAMBDA l :
                 fmul(black_scholes(S0, l.k, T_current, rate, vol, l.type), l.q))
          /\ pnl_total = fsub(current_val, net_cost)

C5_Witness ==
    /\ pc = "done" /\ legs = <<ExampleCall, ExamplePut>> /\ S0 = M(100) /\ T_current > 0
    /\ net_cost = Tenths(35)
    /\ current_val > 0
    /\ pnl_total = current_val - Tenths(35)

\* C6: with no leg activated every curve is zero at every grid point, for any time
\* remaining and both values of is_expiry.
ZeroCurve == [i \in 1 .. NumSamples |-> 0]
C6_EmptyIsZero ==
    (Finished /\ legs = <<>>) =>
        /\ pnl_expiry = ZeroCurve
        /\ pnl_current = ZeroCurve
        /\ \A p \in DOMAIN intermediate_curves : intermediate_curves[p] = ZeroCurve
        /\ \A t \in {0, T_current, T_init}, e \in BOOLEAN :
              strategy_pnl(<<>>, S_range, t, e, rate, vol) = ZeroCurve

C6_Witness ==
    /\ pc = "done" /\ legs = <<>> /\ T_current > 0 /\ S0 = M(100)
    /\ pnl_current = ZeroCurve
    /\ DOMAIN intermediate_curves = {1, 3, 5, 8}

\* C7: for every spot price the input can supply the grid has 300 points, runs from
\* S0*0.7 to S0*1.3 and never decreases.
C7_GridIncreasing ==
    pc # "grid" =>
        /\ Len(S_range) = NumSamples
        /\ S_range[1] * 10 = S0 * 7
        /\ S_range[NumSamples] * 10 = S0 * 13
        /\ \A i \in 1 .. NumSamples - 1 : S_range[i] <= S_range[i + 1]

\* C8: the strategy holds at most four legs, exactly one per activated slot, in slot
\* order, and every leg has quantity +1 (bought) or -1 (sold), never 0.
ActiveBefore(i) == Cardinality({m \in Slots : m <= i /\ active[m]})
C8_LegsMatchSlots ==
    /\ Len(legs) <= 4
    /\ Len(legs) = Cardinality({i \in Slots : active[i]})
    /\ \A i \in Slots : active[i] =>
          LET leg == legs[ActiveBefore(i)]
          IN /\ leg.k = strike[i] /\ leg.p = premium[i]
             /\ (opt_type[i] = "Call" /\ leg.type = "call")
                \/ (opt_type[i] = "Put" /\ leg.type = "put")
             /\ (side[i] = "Achat" /\ leg.q = 1) \/ (side[i] = "Vente" /\ leg.q = -1)
    /\ \A j \in 1 .. Len(legs) : legs[j].q # 0

C8_Witness ==
    /\ \A i \in Slots : active[i]
    /\ Len(legs) = 4
    /\ side[2] = "Vente" /\ legs[3].q = -1 /\ legs[3].k = DefaultStrike(2)
    /\ legs[4].q = 1

\* C9: 0 <= days_passed <= total_days and total_days >= 1 after any sequence of
\* changes, so T_init > 0 and 0 <= T_current <= T_init.
C9_TimeBounds ==
    /\ total_days >= 1
    /\ 0 <= days_passed /\ days_passed <= total_days
    /\ T_init > 0
    /\ 0 <= T_current /\ T_current <= T_init
    /\ T_init * 365 = total_days * TimeDen
    /\ T_current * 365 = (total_days - days_passed) * TimeDen

C9_Witness ==
    /\ total_days = 1 /\ days_passed = 1 /\ T_current = 0 /\ T_init > 0

\* C10: the decay family holds one curve per checkpoint 0.1, 0.3, 0.5, 0.8; the
\* curve under p is the aggregator's result at t = T_init * (1 - p) with
\* is_expiry=False, whatever days_passed is; every such t is above the 1e-6
\* threshold, so none is priced through the intrinsic-value branch.
C10_DecayFamily ==
    pc = "done" =>
        /\ DOMAIN intermediate_curves = {1, 3, 5, 8}
        /\ \A p \in {1, 3, 5, 8} :
              /\ intermediate_curves[p]
                    = strategy_pnl(legs, S_range, CheckpointTime(p), FALSE, rate, vol)
              /\ CheckpointTime(p) * F > TimeDen
              /\ ~is_expired(CheckpointTime(p))

C10_Witness ==
    /\ pc = "done" /\ total_days = MinTotalDays /\ S0 = M(100) /\ legs = <<ExampleCall>>
    /\ DOMAIN intermediate_curves = {1, 3, 5, 8}
    /\ intermediate_curves[8] # pnl_expiry
    /\ intermediate_curves[8] # intermediate_curves[1]

====
